---- MODULE Spec2Model ----
(***************************************************************************)
(* The offline retry queue of the Blinko browser extension:                *)
(*   src/src/utils/offline-queue.js  the queue manager over IndexedDB and  *)
(*                                   its chrome.storage fallback, and the  *)
(*                                   retry policy;                         *)
(*   src/src/background.js           the retry orchestrator and the        *)
(*                                   lifecycle drivers;                    *)
(*   src/src/utils/s3-uploader.js    createNote, which hands a note that   *)
(*                                   could not be delivered to the queue.  *)
(* Every await of the source is a point where another task may run; the    *)
(* code between two awaits is one step.                                    *)
(***************************************************************************)
EXTENDS Integers, Sequences, FiniteSets, TLC

(***************************************************************************)
(* Program constants.                                                      *)
(***************************************************************************)
DEFAULT_MAX_QUEUE_SIZE == 100
fiveMinutes == 5 * 60 * 1000
threeMinutes == 3 * 60 * 1000

\* The messages of the source, in English.
QueueFullMsg == "queue full"
FallbackFullMsg == "queue full (fallback limit)"
DuplicateMsg == "already in queue"
MaxRetriesMsg == "max retries reached"
DeliveryErrorMsg == "HTTP 500"

Strategies == {"conservative", "standard", "aggressive"}
Statuses == {"pending", "retrying", "success", "failed"}
Terminal == {"success", "failed"}

(***************************************************************************)
(* Bounds of the model.                                                    *)
(***************************************************************************)
\* The fallback store's capacity.  The source's literal is 50
\* (offline-queue.js:147); the model keeps the comparison and scales the
\* number so that a full fallback store is reached.
FallbackCap == 1
\* The clock is read at ClockReadings[1..MaxTicks + 1]: the readings put an
\* item's age on and beside the two windows of the source (3 minutes: kept
\* at 180000, removed at 300000; 5 minutes: duplicate at 180000, not at
\* 300000).
MaxTicks == 2
ClockReadings == <<0, 180000, 300000, 480001, 600000>>
\* Retry chains (an invocation of retryQueueItem or the timer it left) that
\* exist at a time, and recovery passes in flight at a time.
MaxChains == 2
MaxPasses == 1
\* Keys the key generator hands out in a lifetime in which items are removed.
MaxRemovalKey == 1
\* Recovery passes in flight at a time where passes are let overlap.
MaxOverlap == 2
\* The counters of delivery attempts saturate here.
MaxCount == 4
\* Keys the IndexedDB key generator hands out.
MaxKey == 3
\* Calls of the queue manager in progress at a time.
MaxTasks == 2
\* Keys the IndexedDB key generator hands out to calls that overlap.
MaxTaskKey == 2
\* The retry counts handed to the retry policy: 0..MaxAttempt, past the
\* longest delay list (10 entries) and the largest maximum (10).
MaxAttempt == 12

Contents == {"x", "y"}
\* what a caller may hand to createNote: nothing, or a text
NoteContents == {"", "x"}
RetryContents == {"x"}
MaxSizeChoices == {1, 2}
RandomValues == {0, 1}
\* successRetention as configured: the default and a longer one
RetentionChoices == {3 * 60 * 1000, 5 * 60 * 1000}
\* strategies handed to the retry policy: the three it names and one it
\* does not
PolicyStrategies == {"conservative", "standard", "aggressive", "custom"}

VARIABLES
  idb,          \* the IndexedDB object store 'queue_items': key -> record
  nextKey,      \* its auto-increment key generator
  fallbackQ,    \* chrome.storage.local 'offline_queue_fallback': a list
  settings,     \* chrome.storage.local 'offline_queue_settings'
  now,          \* Date.now()
  db,           \* module variable db: TRUE when a handle is held
  useFallback,  \* module variable useFallback
  ret,          \* what the last call of the queue manager returned
  chains,       \* retryQueueItem invocations and the timers they scheduled
  passes,       \* processQueueOnStartup passes in flight
  listening,    \* the alarm and network listeners are registered
  attempts,     \* per item id: delivery calls made (history)
  failures,     \* per item id: delivery calls that failed (history)
  passInvs,     \* per item id: invocations started by a recovery pass (history)
  everTerminal, \* item ids whose stored status has been success or failed (history)
  lost,         \* item ids with a delivery result a restart discarded (history)
  assigned,     \* <<store, id>>: ids an enqueue has given out (history)
  tasks         \* calls of the queue manager in progress, each at an await

persistent == <<idb, nextKey, fallbackQ, settings, now>>
memory == <<db, useFallback, tasks>>
orchestrator == <<chains, passes, listening>>
history == <<attempts, failures, passInvs, everTerminal, lost, assigned>>
vars == <<idb, nextKey, fallbackQ, settings, now, db, useFallback, ret,
          chains, passes, listening, attempts, failures, passInvs, everTerminal,
          lost, assigned, tasks>>

(***************************************************************************)
(* Retry policy (pure).                                                    *)
(***************************************************************************)
delays(strategy) ==
  CASE strategy = "conservative" -> <<1000, 2000, 4000>>
    [] strategy = "standard" -> <<1000, 2000, 4000, 8000, 16000, 32000>>
    [] strategy = "aggressive" ->
         <<1000, 1000, 2000, 2000, 4000, 8000, 16000, 32000, 60000, 120000>>
    [] OTHER -> <<1000, 2000, 4000, 8000, 16000, 32000>>

Min(a, b) == IF a < b THEN a ELSE b

\* (mutant) delayList[retryCount]: undefined (0 here) past the end of the list
calculateRetryDelayUnclamped(retryCount, strategy) ==
  LET delayList == delays(strategy)
  IN IF retryCount < Len(delayList) THEN delayList[retryCount + 1] ELSE 0

\* delayList[Math.min(retryCount, delayList.length - 1)], 0-based in the source
calculateRetryDelay(retryCount, strategy) ==
  LET delayList == delays(strategy)
      index == Min(retryCount, Len(delayList) - 1)
  IN delayList[index + 1]

\* (mutant) the maximum of 'standard' whatever the strategy
maxRetriesOfStandard(strategy) == 6

maxRetries(strategy) ==
  CASE strategy = "conservative" -> 3
    [] strategy = "standard" -> 6
    [] strategy = "aggressive" -> 10
    [] OTHER -> 6

\* (mutant) one more retry than the maximum
shouldRetryInclusive(retryCount, strategy) == retryCount <= maxRetries(strategy)

shouldRetry(retryCount, strategy) == retryCount < maxRetries(strategy)

(***************************************************************************)
(* The two stores.                                                         *)
(***************************************************************************)
RECURSIVE KeysAscending(_)
KeysAscending(S) ==
  IF S = {} THEN <<>>
  ELSE LET k == CHOOSE x \in S : \A y \in S : x <= y
       IN <<k>> \o KeysAscending(S \ {k})

\* store.getAll(): the records in key order
getAll == LET keys == KeysAscending(DOMAIN idb)
          IN [n \in 1..Len(keys) |-> idb[keys[n]]]

\* items.sort((a, b) => b.createdAt - a.createdAt): stable, newest first
RECURSIVE sortByCreatedAtDesc(_)
sortByCreatedAtDesc(items) ==
  IF Len(items) <= 1 THEN items
  ELSE LET rest == sortByCreatedAtDesc(Tail(items))
           h == Head(items)
           \* h goes before the first element of rest that is older than it
           before == {n \in 1..Len(rest) : rest[n].createdAt >= h.createdAt}
           cut == IF before = {} THEN 0
                  ELSE CHOOSE n \in before : \A m \in before : m <= n
       IN SubSeq(rest, 1, cut) \o <<h>> \o SubSeq(rest, cut + 1, Len(rest))

\* initDB() has run by the time any store call gets here: db or useFallback
onFallback == useFallback \/ ~db

\* the filter and the sort of getQueue and getQueueFallback
getQueueOf(all, statusFilter) ==
  LET items == IF statusFilter = "all" THEN all
               ELSE SelectSeq(all, LAMBDA it : it.status = statusFilter)
  IN sortByCreatedAtDesc(items)

getQueue(statusFilter) ==
  getQueueOf(IF onFallback THEN fallbackQ ELSE getAll, statusFilter)

getQueueSize == Len(getQueue("all"))

\* chrome.storage.local.get('offline_queue_settings')
\* (mutant) the defaults, whatever is stored
getQueueSettingsDefault == [settings EXCEPT !.retryStrategy = "standard"]

getQueueSettings == settings

getMaxQueueSize ==
  IF settings.maxSize # 0 THEN settings.maxSize ELSE DEFAULT_MAX_QUEUE_SIZE

\* (mutant) the window closed one instant late
isRecentDuplicateInclusive(item, content) ==
  item.content = content /\ (now - item.createdAt) <= fiveMinutes

\* item.content === content && (now - item.createdAt) < fiveMinutes
isRecentDuplicate(item, content) ==
  item.content = content /\ (now - item.createdAt) < fiveMinutes

checkDuplicate(content) ==
  LET queue == getQueue("all")
  IN \E n \in 1..Len(queue) : isRecentDuplicate(queue[n], content)

\* (mutant) the size test off by one
queueIsFullAbove(queueSize, maxSize) == queueSize > maxSize

\* queueSize >= maxSize
queueIsFull(queueSize, maxSize) == queueSize >= maxSize

\* (mutant) the fallback cap off by one
fallbackIsFullAbove(length) == length > FallbackCap

\* queue.length >= 50
fallbackIsFull(length) == length >= FallbackCap

\* (mutant) the merge without the new updatedAt
assignKeepingTime(item, updates) ==
  [f \in DOMAIN item \cup DOMAIN updates |->
     IF f \in DOMAIN updates THEN updates[f] ELSE item[f]]

\* Object.assign(item, updates, { updatedAt: Date.now() })
assign(item, updates) ==
  [f \in DOMAIN item \cup DOMAIN updates \cup {"updatedAt"} |->
     IF f = "updatedAt" THEN now
     ELSE IF f \in DOMAIN updates THEN updates[f]
     ELSE item[f]]

newQueueItem(item) ==
  [content |-> item.content, type |-> item.type, tags |-> item.tags,
   url |-> item.url, title |-> item.title, status |-> "pending",
   createdAt |-> now, updatedAt |-> now, retryCount |-> 0, lastError |-> "",
   metadata |-> item.metadata]

withId(queueItem, id) ==
  [f \in DOMAIN queueItem \cup {"id"} |-> IF f = "id" THEN id ELSE queueItem[f]]

(***************************************************************************)
(* Queue manager.  Each operator gives the outcome of one call that runs   *)
(* to completion: the stores after it and what it returns.                 *)
(***************************************************************************)
outcome(ok, message, id, newIdb, newKey, newFallbackQ) ==
  [success |-> ok, message |-> message, id |-> id,
   idb |-> newIdb, nextKey |-> newKey, fallbackQ |-> newFallbackQ]

\* (mutant) a rejection that names no reason
rejectedWithoutReason(message) == outcome(FALSE, "", 0, idb, nextKey, fallbackQ)

rejected(message) == outcome(FALSE, message, 0, idb, nextKey, fallbackQ)

\* item.id = Date.now() + Math.random(): random is one of the draws
enqueueFallback(queueItem, random) ==
  LET queue == fallbackQ
  IN IF fallbackIsFull(Len(queue)) THEN rejected(FallbackFullMsg)
     ELSE LET id == now + random
          IN outcome(TRUE, "", id, idb, nextKey, Append(queue, withId(queueItem, id)))

\* store.add(queueItem): the key generator gives the id
enqueuePrimary(queueItem) ==
  outcome(TRUE, "", nextKey, idb @@ (nextKey :> withId(queueItem, nextKey)),
          nextKey + 1, fallbackQ)

enqueue(item, random) ==
  LET queueSize == getQueueSize
      maxSize == getMaxQueueSize
  IN IF queueIsFull(queueSize, maxSize) THEN rejected(QueueFullMsg)
     ELSE IF checkDuplicate(item.content) THEN rejected(DuplicateMsg)
     ELSE LET queueItem == newQueueItem(item)
          IN IF onFallback THEN enqueueFallback(queueItem, random)
             ELSE enqueuePrimary(queueItem)

\* (mutant) the filter inverted
dequeueFallbackKeeping(id) ==
  outcome(TRUE, "", id, idb, nextKey,
          SelectSeq(fallbackQ, LAMBDA it : it.id = id))

\* queue.filter(item => item.id !== id); resolves true
dequeueFallback(id) ==
  outcome(TRUE, "", id, idb, nextKey,
          SelectSeq(fallbackQ, LAMBDA it : it.id # id))

\* store.delete(id): deleting a missing key succeeds
dequeuePrimary(id) ==
  outcome(TRUE, "", id, [k \in DOMAIN idb \ {id} |-> idb[k]], nextKey, fallbackQ)

dequeue(id) ==
  IF onFallback THEN dequeueFallback(id) ELSE dequeuePrimary(id)

updateItemFallback(id, updates) ==
  LET queue == fallbackQ
      found == {n \in 1..Len(queue) : queue[n].id = id}
  IN IF found = {} THEN rejected("")
     ELSE LET index == CHOOSE n \in found : \A m \in found : n <= m
          IN outcome(TRUE, "", id, idb, nextKey,
                     [queue EXCEPT ![index] = assign(queue[index], updates)])

\* one readwrite transaction: store.get(id), Object.assign, store.put(item)
updateItemPrimary(id, updates) ==
  IF id \notin DOMAIN idb THEN rejected("")
  ELSE outcome(TRUE, "", id, [idb EXCEPT ![id] = assign(idb[id], updates)],
               nextKey, fallbackQ)

updateItem(id, updates) ==
  IF onFallback THEN updateItemFallback(id, updates)
  ELSE updateItemPrimary(id, updates)

\* store.clear() (the key generator keeps its place);
\* chrome.storage.local.remove('offline_queue_fallback')
clearQueuePrimary == outcome(TRUE, "", 0, <<>>, nextKey, fallbackQ)
clearQueueFallback == outcome(TRUE, "", 0, idb, nextKey, <<>>)

\* options.status and options.olderThan are "" and 0 when not given
noOptions == [status |-> "", olderThan |-> 0]

\* (mutant) the retention rule applied to failed items as well
shouldRemoveTerminal(item, options) ==
  \/ item.status \in {"success", "failed"} /\ now - item.updatedAt > threeMinutes
  \/ options.status # "" /\ item.status = options.status
  \/ options.olderThan # 0 /\ now - item.createdAt > options.olderThan

\* (mutant) the retention test one instant early
shouldRemoveAtThreshold(item, options) ==
  \/ item.status = "success" /\ now - item.updatedAt >= threeMinutes
  \/ options.status # "" /\ item.status = options.status
  \/ options.olderThan # 0 /\ now - item.createdAt > options.olderThan

shouldRemove(item, options) ==
  \/ item.status = "success" /\ now - item.updatedAt > threeMinutes
  \/ options.status # "" /\ item.status = options.status
  \/ options.olderThan # 0 /\ now - item.createdAt > options.olderThan

\* for (const item of queue) { ... await dequeue(item.id); removed++ }
cleanup(options) ==
  LET queue == getQueue("all")
      gone == {n \in 1..Len(queue) : shouldRemove(queue[n], options)}
      ids == {queue[n].id : n \in gone}
  IN [removed |-> Cardinality(gone),
      idb |-> IF onFallback THEN idb ELSE [k \in DOMAIN idb \ ids |-> idb[k]],
      fallbackQ |-> IF onFallback
                    THEN SelectSeq(fallbackQ, LAMBDA it : it.id \notin ids)
                    ELSE fallbackQ]

(***************************************************************************)
(* Calls of the queue manager that run to completion (no other task runs   *)
(* between their awaits).                                                  *)
(***************************************************************************)
\* what createNote hands to enqueue (tryEnqueueNote)
noteInput(content) ==
  [content |-> content, type |-> 0, tags |-> "", url |-> "", title |-> "",
   metadata |-> "{}"]

Saturating(n) == Min(n + 1, MaxCount)

\* the store the calls of this moment go to
activeStore == IF onFallback THEN "fallback" ELSE "idb"

\* the ids given out so far, after an enqueue with outcome o
handedOut(o, store) ==
  IF o.success THEN assigned \cup {<<store, o.id>>} ELSE assigned

stored(o) ==
  /\ idb' = o.idb
  /\ nextKey' = o.nextKey
  /\ fallbackQ' = o.fallbackQ

\* no call has returned
noReturn ==
  [op |-> "", success |-> FALSE, message |-> "", value |-> 0,
   options |-> noOptions, queued |-> FALSE, args |-> <<>>]

\* enqueue returns {success, id, message}; dequeue and updateItem a boolean
\* (options and queued belong to the returns of cleanup and createNote)
callReturn(op, o) ==
  [op |-> op, success |-> o.success, message |-> o.message,
   value |-> IF op = "enqueue" THEN o.id ELSE 0,
   options |-> noOptions, queued |-> FALSE, args |-> <<>>]

\* ids a caller may hold: those in the active store and one that is in neither
heldIds ==
  IF onFallback THEN {fallbackQ[n].id : n \in 1..Len(fallbackQ)} \cup {-1}
  ELSE DOMAIN idb \cup {-1}

Enqueue(content, random) ==
    /\ nextKey <= MaxKey
    /\ LET o == enqueue(noteInput(content), random)
           isNew == o.success /\ ~onFallback
       IN /\ stored(o)
          /\ ret' = callReturn("enqueue", o)
          /\ attempts' = IF isNew THEN attempts @@ (o.id :> 0) ELSE attempts
          /\ failures' = IF isNew THEN failures @@ (o.id :> 0) ELSE failures
          /\ passInvs' = IF isNew THEN passInvs @@ (o.id :> 0) ELSE passInvs
          /\ assigned' = handedOut(o, activeStore)
    /\ UNCHANGED <<settings, now, memory, orchestrator, everTerminal, lost>>

\* what fetch gives createNote: a 2xx response, 401 or 403, a 5xx, another
\* status, a thrown network error, or a 2xx response whose body response.json()
\* cannot parse (it throws into the same catch block)
Responses ==
  {"ok", "unauthorized", "serverError", "otherStatus", "networkError",
   "malformedBody"}

\* (mutant) every failed request is handed to tryEnqueueNote
isRetryableAlways(response) == response # "ok"

\* the answers after which createNote calls tryEnqueueNote: status >= 500,
\* and whatever lands in the catch block
isRetryable(response) ==
  response \in {"serverError", "networkError", "malformedBody"}

\* String.prototype.trim on the contents of the model
trim(content) == IF content = " " THEN "" ELSE content

\* (mutant) createNote without its content check
contentMissingNever(content) == FALSE

\* !content || content.trim() === ''
contentMissing(content) == content = "" \/ trim(content) = ""

\* (mutant) tryEnqueueNote without the autoRetry gate
tryEnqueueNoteUngated(content, random) == enqueue(noteInput(content), random)

\* tryEnqueueNote: the autoRetry gate, then enqueue; {success} only
tryEnqueueNote(content, random) ==
  IF ~getQueueSettings.autoRetry THEN rejected("")
  ELSE enqueue(noteInput(content), random)

\* createNote(apiUrl, token, content, type, metadata); configured says that
\* apiUrl and token are both given
CreateNote(configured, content, response, random) ==
  LET queues == /\ configured
                /\ ~contentMissing(content)
                /\ isRetryable(response)
      o == IF queues THEN tryEnqueueNote(content, random) ELSE rejected("")
      isNew == o.success /\ ~onFallback
      message == IF ~configured THEN "api_error_noBlinkoConfig"
                 ELSE IF contentMissing(content) THEN "status_error_emptyContent"
                 ELSE CASE response = "ok" -> "api_success_noteSaved"
                        [] response = "unauthorized" -> "api_error_authFailedCheck"
                        [] response = "otherStatus" -> "api_error_saveHttpStatus"
                        [] response = "serverError" ->
                             IF o.success THEN "queue_enqueued_server_error"
                             ELSE "api_error_saveHttpStatus"
                        [] response \in {"networkError", "malformedBody"} ->
                             IF o.success THEN "queue_enqueued_network_error"
                             ELSE "error_networkError"
  IN /\ nextKey <= MaxKey
     /\ stored(o)
     /\ ret' = [op |-> "createNote",
                success |-> (configured /\ ~contentMissing(content) /\ response = "ok"),
                message |-> message, value |-> 0, options |-> noOptions,
                queued |-> o.success, args |-> <<>>]
     /\ attempts' = IF isNew THEN attempts @@ (o.id :> 0) ELSE attempts
     /\ failures' = IF isNew THEN failures @@ (o.id :> 0) ELSE failures
     /\ passInvs' = IF isNew THEN passInvs @@ (o.id :> 0) ELSE passInvs
     /\ assigned' = handedOut(o, activeStore)
     /\ UNCHANGED <<settings, now, memory, orchestrator, everTerminal, lost>>

DequeueOf(id) ==
  LET o == dequeue(id)
  IN /\ stored(o)
     /\ ret' = callReturn("dequeue", o)
     /\ UNCHANGED <<settings, now, memory, orchestrator, history>>

Dequeue == \E id \in heldIds : DequeueOf(id)

\* patches retryQueueItem writes
Patches ==
  {[status |-> "success", lastError |-> ""],
   [status |-> "pending", retryCount |-> 1, lastError |-> DeliveryErrorMsg]}

UpdateItemOf(id, updates) ==
  LET o == updateItem(id, updates)
  IN /\ stored(o)
     /\ ret' = callReturn("updateItem", o)
     /\ UNCHANGED <<settings, now, memory, orchestrator, history>>

UpdateItem == \E id \in heldIds, updates \in Patches : UpdateItemOf(id, updates)

CleanupOptions ==
  {noOptions,
   [status |-> "pending", olderThan |-> 0],
   [status |-> "", olderThan |-> fiveMinutes]}

CleanupWith(options) ==
  LET o == cleanup(options)
  IN /\ idb' = o.idb
     /\ fallbackQ' = o.fallbackQ
     /\ ret' = [op |-> "cleanup", success |-> TRUE, message |-> "",
                value |-> o.removed, options |-> options, queued |-> FALSE,
                args |-> <<>>]
     /\ UNCHANGED <<nextKey, settings, now, memory, orchestrator, history>>

Cleanup == \E options \in CleanupOptions : CleanupWith(options)

\* saveQueueSettings(settings) with another retryStrategy
SaveRetryStrategy(strategy) ==
  /\ strategy # settings.retryStrategy
  /\ settings' = [settings EXCEPT !.retryStrategy = strategy]
  /\ UNCHANGED <<idb, nextKey, fallbackQ, now, memory, ret, orchestrator, history>>

Tick ==
  \E n \in 1..MaxTicks :
    /\ now = ClockReadings[n]
    /\ now' = ClockReadings[n + 1]
  /\ UNCHANGED <<idb, nextKey, fallbackQ, settings, memory, ret, orchestrator,
                 history>>

\* The retry policy called on its own: the result of shouldRetry is in
\* ret.success, that of calculateRetryDelay in ret.value, the arguments in
\* ret.args.
ShouldRetry(retryCount, strategy) ==
  /\ ret' = [noReturn EXCEPT !.op = "shouldRetry",
                              !.success = shouldRetry(retryCount, strategy),
                              !.args = <<retryCount, strategy>>]
  /\ UNCHANGED <<persistent, memory, orchestrator, history>>

CalculateRetryDelay(retryCount, strategy) ==
  /\ ret' = [noReturn EXCEPT !.op = "calculateRetryDelay",
                              !.value = calculateRetryDelay(retryCount, strategy),
                              !.args = <<retryCount, strategy>>]
  /\ UNCHANGED <<persistent, memory, orchestrator, history>>

(***************************************************************************)
(* Calls of the queue manager that overlap.  A task is one call, suspended *)
(* at the await its pc names:                                              *)
(*   "open"        await initDB(), the open request pending                *)
(*   "primary"     the IndexedDB transaction of the call                   *)
(*   "fallback"    await chrome.storage.local.get('offline_queue_fallback')*)
(*   "fallbackSet" await chrome.storage.local.set({offline_queue_fallback})*)
(*   "getMaxQueueSize"  await getMaxQueueSize()                            *)
(* stage tells enqueue's three store accesses apart: "size" (getQueueSize),*)
(* "dup" (checkDuplicate) and "add".                                       *)
(***************************************************************************)
TaskIds == 1..MaxTasks

idleTask ==
  [pc |-> "idle", op |-> "", stage |-> "", id |-> 0, content |-> "",
   updates |-> <<>>, read |-> <<>>, queueSize |-> 0, createdAt |-> 0,
   flagAtCall |-> FALSE, via |-> "", success |-> FALSE, message |-> "",
   value |-> 0]

\* (mutant) the handle looked at before the flag
routeByHandle(flag, handle) ==
  IF handle THEN "primary" ELSE IF flag THEN "fallback" ELSE "open"

\* if (useFallback) ...Fallback(); await initDB(); if (!db) ...Fallback():
\* where a call goes from the values of useFallback and db at its start
route(flag, handle) ==
  IF flag THEN "fallback" ELSE IF handle THEN "primary" ELSE "open"

\* the call returns: its locals are gone, its result is with the caller
finished(task, ok, message, value) ==
  [task EXCEPT !.pc = "done", !.read = <<>>, !.queueSize = 0,
               !.success = ok, !.message = message, !.value = value]

TaskPatches ==
  {[status |-> "retrying"],
   [retryCount |-> 1, lastError |-> DeliveryErrorMsg]}

\* ids a caller may hold: those of either store
knownIds == DOMAIN idb \cup {fallbackQ[n].id : n \in 1..Len(fallbackQ)}

enqueuesInFlight ==
  {t \in TaskIds : tasks[t].op = "enqueue" /\ tasks[t].pc \notin {"idle", "done"}}

\* a caller calls op; the code up to the first await runs
Call(t, op, id, content, updates) ==
  /\ tasks[t].pc = "idle"
  /\ op = "enqueue" => nextKey + Cardinality(enqueuesInFlight) <= MaxTaskKey
  /\ tasks' = [tasks EXCEPT ![t] =
       [idleTask EXCEPT !.pc = route(useFallback, db), !.op = op,
                        !.stage = IF op = "enqueue" THEN "size" ELSE "",
                        !.id = id, !.content = content, !.updates = updates,
                        !.flagAtCall = useFallback]]
  /\ UNCHANGED <<persistent, db, useFallback, ret, orchestrator, history>>

CallEnqueue(t) == \E content \in Contents : Call(t, "enqueue", 0, content, <<>>)
CallDequeue(t) == \E id \in knownIds : Call(t, "dequeue", id, "", <<>>)
CallUpdateItem(t) ==
  \E id \in knownIds, updates \in TaskPatches : Call(t, "updateItem", id, "", updates)
CallGetQueue(t) == Call(t, "getQueue", 0, "", <<>>)
CallClearQueue(t) == Call(t, "clearQueue", 0, "", <<>>)

\* initDB: request.onsuccess sets db; request.onerror sets useFallback and
\* resolves null, and the caller then tests the module's db
Open(t) ==
  /\ tasks[t].pc = "open"
  /\ \/ /\ db' = TRUE
        /\ UNCHANGED useFallback
        /\ tasks' = [tasks EXCEPT ![t].pc = "primary"]
     \/ /\ useFallback' = TRUE
        /\ UNCHANGED db
        /\ tasks' = [tasks EXCEPT ![t].pc = IF db THEN "primary" ELSE "fallback"]
  /\ UNCHANGED <<persistent, ret, orchestrator, history>>

atStore(task) == task.pc \in {"primary", "fallback"}
storeOf(task) == IF task.pc = "primary" THEN "idb" ELSE "fallback"
storeRead(via) == IF via = "idb" THEN getAll ELSE fallbackQ

\* getQueueSize(): queue.length of the store reached
ReadSize(t) ==
  /\ atStore(tasks[t]) /\ tasks[t].op = "enqueue" /\ tasks[t].stage = "size"
  /\ tasks' = [tasks EXCEPT ![t].via = storeOf(tasks[t]),
                            ![t].queueSize = Len(storeRead(storeOf(tasks[t]))),
                            ![t].pc = "getMaxQueueSize"]
  /\ UNCHANGED <<persistent, db, useFallback, ret, orchestrator, history>>

\* getMaxQueueSize(), the size test, and the start of checkDuplicate
DecideFull(t) ==
  /\ tasks[t].pc = "getMaxQueueSize"
  /\ tasks' = [tasks EXCEPT ![t] =
       IF queueIsFull(tasks[t].queueSize, getMaxQueueSize)
       THEN finished(tasks[t], FALSE, QueueFullMsg, 0)
       ELSE [tasks[t] EXCEPT !.stage = "dup", !.pc = route(useFallback, db)]]
  /\ UNCHANGED <<persistent, db, useFallback, ret, orchestrator, history>>

\* checkDuplicate(): queue.some(...) over the store reached; then queueItem
\* is made and the third access starts
ReadDuplicates(t) ==
  /\ atStore(tasks[t]) /\ tasks[t].op = "enqueue" /\ tasks[t].stage = "dup"
  /\ LET queue == storeRead(storeOf(tasks[t]))
         isDuplicate == \E n \in 1..Len(queue) :
                          isRecentDuplicate(queue[n], tasks[t].content)
         me == [tasks[t] EXCEPT !.via = storeOf(tasks[t])]
     IN tasks' = [tasks EXCEPT ![t] =
          IF isDuplicate THEN finished(me, FALSE, DuplicateMsg, 0)
          ELSE [me EXCEPT !.stage = "add", !.createdAt = now,
                          !.pc = route(useFallback, db)]]
  /\ UNCHANGED <<persistent, db, useFallback, ret, orchestrator, history>>

\* getQueue(): the list is handed to the caller
ReadQueue(t) ==
  /\ atStore(tasks[t]) /\ tasks[t].op = "getQueue"
  /\ tasks' = [tasks EXCEPT ![t] =
       finished([tasks[t] EXCEPT !.via = storeOf(tasks[t])], TRUE, "",
                Len(getQueueOf(storeRead(storeOf(tasks[t])), "all")))]
  /\ UNCHANGED <<persistent, db, useFallback, ret, orchestrator, history>>

queueItemOf(task) ==
  [newQueueItem(noteInput(task.content)) EXCEPT
     !.createdAt = task.createdAt, !.updatedAt = task.createdAt]

\* what the call does to the store it reached
storeWrite(task, via, random) ==
  CASE task.op = "enqueue" ->
         IF via = "idb" THEN enqueuePrimary(queueItemOf(task))
         ELSE enqueueFallback(queueItemOf(task), random)
    [] task.op = "dequeue" ->
         IF via = "idb" THEN dequeuePrimary(task.id) ELSE dequeueFallback(task.id)
    [] task.op = "updateItem" ->
         IF via = "idb" THEN updateItemPrimary(task.id, task.updates)
         ELSE updateItemFallback(task.id, task.updates)
    [] task.op = "clearQueue" ->
         IF via = "idb" THEN clearQueuePrimary ELSE clearQueueFallback

isWrite(task) ==
  \/ task.op \in {"dequeue", "updateItem", "clearQueue"}
  \/ task.op = "enqueue" /\ task.stage = "add"

returned(task, o) ==
  finished(task, o.success, o.message, IF task.op = "enqueue" THEN o.id ELSE 0)

\* the readwrite transaction of enqueue, dequeue, updateItem or clearQueue
WritePrimary(t) ==
  /\ tasks[t].pc = "primary" /\ isWrite(tasks[t])
  /\ LET me == [tasks[t] EXCEPT !.via = "idb"]
         o == storeWrite(me, "idb", 0)
         isNew == me.op = "enqueue" /\ o.success
     IN /\ stored(o)
        /\ tasks' = [tasks EXCEPT ![t] = returned(me, o)]
        /\ attempts' = IF isNew THEN attempts @@ (o.id :> 0) ELSE attempts
        /\ failures' = IF isNew THEN failures @@ (o.id :> 0) ELSE failures
        /\ passInvs' = IF isNew THEN passInvs @@ (o.id :> 0) ELSE passInvs
        /\ assigned' = handedOut(o, "idb")
  /\ UNCHANGED <<settings, now, db, useFallback, ret, orchestrator,
                 everTerminal, lost>>

\* the fallback functions: the list is read and changed in memory, to be
\* written by the set that follows (clearQueue removes the key at once)
ReadFallback(t) ==
  /\ tasks[t].pc = "fallback" /\ isWrite(tasks[t])
  /\ \E random \in RandomValues :
       LET me == [tasks[t] EXCEPT !.via = "fallback"]
           o == storeWrite(me, "fallback", random)
       IN IF me.op = "clearQueue"
          THEN /\ stored(o)
               /\ tasks' = [tasks EXCEPT ![t] = returned(me, o)]
          ELSE /\ UNCHANGED <<idb, nextKey, fallbackQ>>
               /\ tasks' = [tasks EXCEPT ![t] =
                    IF ~o.success THEN returned(me, o)
                    ELSE [me EXCEPT !.pc = "fallbackSet", !.read = o.fallbackQ,
                                    !.value = IF me.op = "enqueue" THEN o.id ELSE 0]]
  /\ UNCHANGED <<settings, now, db, useFallback, ret, orchestrator, history>>

\* chrome.storage.local.set({ offline_queue_fallback: queue })
WriteFallback(t) ==
  /\ tasks[t].pc = "fallbackSet"
  /\ fallbackQ' = tasks[t].read
  /\ tasks' = [tasks EXCEPT ![t] = finished(tasks[t], TRUE, "", tasks[t].value)]
  /\ assigned' = IF tasks[t].op = "enqueue"
                 THEN assigned \cup {<<"fallback", tasks[t].value>>}
                 ELSE assigned
  /\ UNCHANGED <<idb, nextKey, settings, now, db, useFallback, ret,
                 orchestrator, attempts, failures, passInvs, everTerminal, lost>>

\* the caller has the result
Return(t) ==
  /\ tasks[t].pc = "done"
  /\ tasks' = [tasks EXCEPT ![t] = idleTask]
  /\ UNCHANGED <<persistent, db, useFallback, ret, orchestrator, history>>

(***************************************************************************)
(* Retry orchestrator and lifecycle drivers (background.js).               *)
(* A chain is one retryQueueItem(item) invocation, suspended at the await  *)
(* its pc names, or the timer that invocation left behind; item is the     *)
(* object the invocation was given and the timer's closure keeps.          *)
(***************************************************************************)
freeChain ==
  [pc |-> "free", id |-> 0, retryCount |-> 0, strategy |-> "", ok |-> FALSE,
   pass |-> 0, delay |-> 0]
freePass == [pc |-> "free", todo |-> <<>>, startup |-> FALSE]
startupPass == [pc |-> "getQueue", todo |-> <<>>, startup |-> TRUE]

ChainIds == 1..MaxChains
PassIds == 1..MaxPasses
OverlapIds == 1..MaxOverlap

LowestFree(S, f) ==
  CHOOSE c \in S : f[c].pc = "free" /\ \A d \in S : f[d].pc = "free" => c <= d

\* (mutant) the count of a new item in place of the stored one
snapshotFromZero(item) == [id |-> item.id, retryCount |-> 0]

\* the item objects a pass iterates over: id and retryCount are what
\* retryQueueItem reads of them
snapshot(item) == [id |-> item.id, retryCount |-> item.retryCount]

\* (mutant) every item of the queue, whatever its status
pendingItemsUnfiltered ==
  LET queue == getQueue("all")
  IN [n \in 1..Len(queue) |-> snapshot(queue[n])]

pendingItems ==
  LET queue == getQueue("all")
      kept == SelectSeq(queue, LAMBDA it : it.status = "pending" \/ it.status = "retrying")
  IN [n \in 1..Len(kept) |-> snapshot(kept[n])]

\* retryQueueItem(item) returned to the pass that awaits it, if any: the pass
\* goes on to its next item or ends; the startup pass ends by registering
\* the listeners (initOfflineQueueProcessing)
passResumes(p) ==
  IF p = 0 THEN UNCHANGED <<passes, listening>>
  ELSE IF passes[p].todo = <<>>
       THEN /\ passes' = [passes EXCEPT ![p] = freePass]
            /\ listening' = (listening \/ passes[p].startup)
       ELSE /\ passes' = [passes EXCEPT ![p].pc = "next"]
            /\ UNCHANGED listening

nowTerminal(id, newIdb) ==
  IF id \in DOMAIN newIdb /\ newIdb[id].status \in Terminal
  THEN everTerminal \cup {id} ELSE everTerminal

\* const settings = await getQueueSettings(); then the shouldRetry test
RetryReadSettings(c) ==
  /\ chains[c].pc = "getQueueSettings"
  /\ LET strategy == getQueueSettings.retryStrategy
     IN chains' = [chains EXCEPT
          ![c].strategy = strategy,
          ![c].pc = IF shouldRetry(chains[c].retryCount, strategy)
                    THEN "updateRetrying" ELSE "updateFailed"]
  /\ UNCHANGED <<persistent, memory, ret, passes, listening, history>>

\* await updateItem(item.id, {status: 'failed', ...}); return
RetryGiveUp(c) ==
  /\ chains[c].pc = "updateFailed"
  /\ LET o == updateItem(chains[c].id,
                         [status |-> "failed", lastError |-> MaxRetriesMsg])
     IN /\ stored(o)
        /\ everTerminal' = nowTerminal(chains[c].id, o.idb)
  /\ chains' = [chains EXCEPT ![c] = freeChain]
  /\ passResumes(chains[c].pass)
  /\ UNCHANGED <<settings, now, memory, ret, attempts, failures, passInvs, lost, assigned>>

\* await updateItem(item.id, {status: 'retrying'})
RetryMarkRetrying(c) ==
  /\ chains[c].pc = "updateRetrying"
  /\ LET o == updateItem(chains[c].id, [status |-> "retrying"])
     IN stored(o)
  /\ chains' = [chains EXCEPT ![c].pc = "retryQueuedNote"]
  /\ UNCHANGED <<settings, now, memory, ret, passes, listening, history>>

\* const result = await retryQueuedNote(item, ...): the delivery call
RetryDeliver(c) ==
  /\ chains[c].pc = "retryQueuedNote"
  /\ \E ok \in BOOLEAN :
       /\ chains' = [chains EXCEPT ![c].ok = ok, ![c].pc = "updateResult"]
       /\ attempts' = [attempts EXCEPT ![chains[c].id] = Saturating(@)]
       /\ failures' = IF ok THEN failures
                      ELSE [failures EXCEPT ![chains[c].id] = Saturating(@)]
  /\ UNCHANGED <<persistent, memory, ret, passes, listening, passInvs,
                 everTerminal, lost, assigned>>

\* item.retryCount + 1: item is the object the invocation was given
newRetryCount(c) == chains[c].retryCount + 1

\* result.success: await updateItem(item.id, {status: 'success', ...})
RetryWriteSuccess(c) ==
  /\ chains[c].pc = "updateResult"
  /\ chains[c].ok
  /\ LET o == updateItem(chains[c].id, [status |-> "success", lastError |-> ""])
     IN /\ stored(o)
        /\ everTerminal' = nowTerminal(chains[c].id, o.idb)
  /\ chains' = [chains EXCEPT ![c] = freeChain]
  /\ passResumes(chains[c].pass)
  /\ UNCHANGED <<settings, now, memory, ret, attempts, failures, passInvs, lost, assigned>>

\* else: await updateItem(item.id, {status: 'pending', retryCount, lastError});
\* delay = calculateRetryDelay(newRetryCount, settings.retryStrategy);
\* setTimeout(() => retryQueueItem(item), delay)
RetryWriteFailure(c) ==
  /\ chains[c].pc = "updateResult"
  /\ ~chains[c].ok
  /\ LET o == updateItem(chains[c].id,
                         [status |-> "pending", retryCount |-> newRetryCount(c),
                          lastError |-> DeliveryErrorMsg])
     IN stored(o)
  /\ chains' = [chains EXCEPT
       ![c].pc = "timer", ![c].pass = 0,
       ![c].delay = calculateRetryDelay(newRetryCount(c), chains[c].strategy)]
  /\ passResumes(chains[c].pass)
  /\ UNCHANGED <<settings, now, memory, ret, history>>

\* the timer fires: retryQueueItem(item) with the same item object
TimerFires(c) ==
  /\ chains[c].pc = "timer"
  /\ chains' = [chains EXCEPT ![c].pc = "getQueueSettings"]
  /\ UNCHANGED <<persistent, memory, ret, passes, listening, history>>

\* processQueueOnStartup: const queue = await getQueue('all'); filter
PassReadsQueue(p) ==
  /\ passes[p].pc = "getQueue"
  /\ LET items == pendingItems
     IN IF items = <<>>
        THEN /\ passes' = [passes EXCEPT ![p] = freePass]
             /\ listening' = (listening \/ passes[p].startup)
        ELSE /\ passes' = [passes EXCEPT ![p].pc = "next", ![p].todo = items]
             /\ UNCHANGED listening
  /\ UNCHANGED <<persistent, memory, ret, chains, history>>

\* for (const item of pendingItems) await retryQueueItem(item)
PassRetriesNext(p) ==
  /\ passes[p].pc = "next"
  /\ \E c \in ChainIds : chains[c].pc = "free"
  /\ LET c == LowestFree(ChainIds, chains)
         item == Head(passes[p].todo)
     IN /\ chains' = [chains EXCEPT ![c] =
              [pc |-> "getQueueSettings", id |-> item.id,
               retryCount |-> item.retryCount, strategy |-> "", ok |-> FALSE,
               pass |-> p, delay |-> 0]]
        /\ passInvs' = [passInvs EXCEPT ![item.id] = Saturating(@)]
  /\ passes' = [passes EXCEPT ![p].pc = "await", ![p].todo = Tail(@)]
  /\ UNCHANGED <<persistent, memory, ret, listening, attempts, failures,
                 everTerminal, lost, assigned>>

newPass ==
  /\ listening
  /\ \E p \in DOMAIN passes : passes[p].pc = "free"
  /\ passes' = [passes EXCEPT ![LowestFree(DOMAIN passes, passes)] =
                  [pc |-> "getQueue", todo |-> <<>>, startup |-> FALSE]]
  /\ UNCHANGED <<persistent, memory, ret, chains, listening, history>>

\* chrome.alarms 'check-queue' (setupPeriodicCheck)
AlarmCheckQueue == newPass

\* port message 'network-online' (setupNetworkListeners)
NetworkOnline == newPass

\* the service worker is terminated and started again: timers and running
\* invocations are gone, the stores stay; initOfflineQueueProcessing runs
Restart ==
  /\ chains' = [c \in ChainIds |-> freeChain]
  /\ passes' = [p \in PassIds |-> IF p = 1 THEN startupPass ELSE freePass]
  /\ listening' = FALSE
  /\ db' = TRUE
  /\ useFallback' = FALSE
  /\ tasks' = [t \in TaskIds |-> idleTask]
  /\ lost' = lost \cup {chains[c].id : c \in {d \in ChainIds : chains[d].pc = "updateResult"}}
  /\ UNCHANGED <<persistent, ret, attempts, failures, passInvs, everTerminal, assigned>>

(***************************************************************************)
(* Specifications.                                                         *)
(***************************************************************************)
InitStores ==
  /\ idb = <<>>
  /\ nextKey = 1
  /\ fallbackQ = <<>>
  /\ now = 0
  /\ ret = noReturn
  /\ attempts = <<>>
  /\ failures = <<>>
  /\ passInvs = <<>>
  /\ everTerminal = {}
  /\ lost = {}
  /\ assigned = {}
  /\ tasks = [t \in TaskIds |-> idleTask]

\* The worker has started and opened IndexedDB; the startup pass begins.
Init ==
  /\ InitStores
  /\ settings \in [maxSize : {2}, autoRetry : {TRUE},
                  retryStrategy : {"conservative", "standard"},
                  successRetention : {threeMinutes}]
  /\ db = TRUE
  /\ useFallback = FALSE
  /\ chains = [c \in ChainIds |-> freeChain]
  /\ passes = [p \in PassIds |-> IF p = 1 THEN startupPass ELSE freePass]
  /\ listening = FALSE

\* what happens while the worker lives
NextAlive ==
  \/ \E content \in RetryContents : Enqueue(content, 0)
  \/ \E c \in ChainIds :
       \/ RetryReadSettings(c)
       \/ RetryGiveUp(c)
       \/ RetryMarkRetrying(c)
       \/ RetryDeliver(c)
       \/ RetryWriteSuccess(c)
       \/ RetryWriteFailure(c)
       \/ TimerFires(c)
  \/ \E p \in PassIds :
       \/ PassReadsQueue(p)
       \/ PassRetriesNext(p)
  \/ AlarmCheckQueue
  \/ NetworkOnline

Next ==
  \/ NextAlive
  \/ Restart

Spec == Init /\ [][Next]_vars

\* The queue manager alone, called by one caller at a time, in a process
\* whose open of IndexedDB succeeded or failed (initDB).
InitQueue ==
  /\ InitStores
  /\ settings \in [maxSize : MaxSizeChoices, autoRetry : {TRUE},
                  retryStrategy : {"standard"},
                  successRetention : {threeMinutes}]
  /\ \/ db = TRUE /\ useFallback = FALSE
     \/ db = FALSE /\ useFallback = TRUE
  /\ chains = [c \in ChainIds |-> freeChain]
  /\ passes = [p \in PassIds |-> freePass]
  /\ listening = FALSE

NextQueue ==
  \/ \E content \in Contents, random \in RandomValues : Enqueue(content, random)
  \/ Dequeue
  \/ UpdateItem
  \/ Cleanup
  \/ Tick

SpecQueue == InitQueue /\ [][NextQueue]_vars

\* The queue manager called by callers whose calls overlap, in a process
\* that has just loaded the module (no handle, no fallback flag).
InitTasks ==
  /\ InitStores
  /\ settings \in [maxSize : {2}, autoRetry : {TRUE},
                    retryStrategy : {"standard"},
                    successRetention : {threeMinutes}]
  /\ db = FALSE
  /\ useFallback = FALSE
  /\ chains = [c \in ChainIds |-> freeChain]
  /\ passes = [p \in PassIds |-> freePass]
  /\ listening = FALSE

NextTasks ==
  \E t \in TaskIds :
    \/ CallEnqueue(t)
    \/ CallDequeue(t)
    \/ CallUpdateItem(t)
    \/ CallGetQueue(t)
    \/ CallClearQueue(t)
    \/ Open(t)
    \/ ReadSize(t)
    \/ DecideFull(t)
    \/ ReadDuplicates(t)
    \/ ReadQueue(t)
    \/ WritePrimary(t)
    \/ ReadFallback(t)
    \/ WriteFallback(t)
    \/ Return(t)

SpecTasks == InitTasks /\ [][NextTasks]_vars

\* Enqueue calls that overlap on a queue whose maxSize is 1, so that one
\* stored item fills it.
InitCapacity ==
  /\ InitStores
  /\ settings \in [maxSize : {1}, autoRetry : {TRUE},
                    retryStrategy : {"standard"},
                    successRetention : {threeMinutes}]
  /\ db = FALSE
  /\ useFallback = FALSE
  /\ chains = [c \in ChainIds |-> freeChain]
  /\ passes = [p \in PassIds |-> freePass]
  /\ listening = FALSE

NextCapacity ==
  \E t \in TaskIds :
    \/ CallEnqueue(t)
    \/ Open(t)
    \/ ReadSize(t)
    \/ DecideFull(t)
    \/ ReadDuplicates(t)
    \/ WritePrimary(t)
    \/ ReadFallback(t)
    \/ WriteFallback(t)
    \/ Return(t)

SpecCapacity == InitCapacity /\ [][NextCapacity]_vars

\* Notes on their way into the queue and out of it: createNote and enqueue
\* called by one caller at a time over the primary store, under the settings
\* a user may have stored, with the writes of a delivery and the periodic
\* cleanup.
InitNotes ==
  /\ InitStores
  /\ settings \in [maxSize : {2}, autoRetry : BOOLEAN,
                    retryStrategy : {"standard"},
                    successRetention : RetentionChoices]
  /\ db = TRUE
  /\ useFallback = FALSE
  /\ chains = [c \in ChainIds |-> freeChain]
  /\ passes = [p \in PassIds |-> freePass]
  /\ listening = FALSE

NextNotes ==
  \/ \E configured \in BOOLEAN, content \in NoteContents, response \in Responses :
       CreateNote(configured, content, response, 0)
  \/ \E content \in NoteContents : Enqueue(content, 0)
  \/ \E id \in heldIds : UpdateItemOf(id, [status |-> "success", lastError |-> ""])
  \/ CleanupWith(noOptions)
  \/ Tick

SpecNotes == InitNotes /\ [][NextNotes]_vars

\* The four writes of retryQueueItem: 'retrying', 'success', 'pending' with
\* the next count, 'failed'
StatusPatches ==
  Patches \cup {[status |-> "retrying"],
                [status |-> "failed", lastError |-> MaxRetriesMsg]}

\* cleanup as its callers may call it: with no options (the periodic driver),
\* with a status, with an age
CleanupCalls ==
  {noOptions,
   [status |-> "pending", olderThan |-> 0],
   [status |-> "failed", olderThan |-> 0],
   [status |-> "", olderThan |-> threeMinutes]}

\* Items of every status under cleanup: enqueue, the status writes of the
\* orchestrator and cleanup called one at a time over the primary store
\* while time passes.
InitCleanup ==
  /\ InitStores
  /\ settings \in [maxSize : {2}, autoRetry : {TRUE},
                    retryStrategy : {"standard"},
                    successRetention : {threeMinutes}]
  /\ db = TRUE
  /\ useFallback = FALSE
  /\ chains = [c \in ChainIds |-> freeChain]
  /\ passes = [p \in PassIds |-> freePass]
  /\ listening = FALSE

NextCleanup ==
  \/ \E content \in RetryContents : Enqueue(content, 0)
  \/ \E id \in DOMAIN idb, updates \in StatusPatches : UpdateItemOf(id, updates)
  \/ \E options \in CleanupCalls : CleanupWith(options)
  \/ Tick

SpecCleanup == InitCleanup /\ [][NextCleanup]_vars

\* The retry policy alone: its two functions applied to every retry count
\* of 0..MaxAttempt under every strategy of PolicyStrategies.
InitPolicy ==
  /\ InitStores
  /\ settings \in [maxSize : {DEFAULT_MAX_QUEUE_SIZE}, autoRetry : {TRUE},
                    retryStrategy : {"standard"},
                    successRetention : {threeMinutes}]
  /\ db = TRUE
  /\ useFallback = FALSE
  /\ chains = [c \in ChainIds |-> freeChain]
  /\ passes = [p \in PassIds |-> freePass]
  /\ listening = FALSE

NextPolicy ==
  \/ \E retryCount \in 0..MaxAttempt, strategy \in PolicyStrategies :
       ShouldRetry(retryCount, strategy)
  \/ \E retryCount \in 0..MaxAttempt, strategy \in PolicyStrategies :
       CalculateRetryDelay(retryCount, strategy)

SpecPolicy == InitPolicy /\ [][NextPolicy]_vars

\* One lifetime of the worker during which the stored retry strategy is
\* changed.
NextSettings ==
  \/ NextAlive
  \/ \E strategy \in {"conservative", "standard"} : SaveRetryStrategy(strategy)

SpecSettings == Init /\ [][NextSettings]_vars

\* One lifetime of the worker, under the conservative strategy, during which
\* items are removed from the queue.
InitRemoval ==
  /\ Init
  /\ settings.retryStrategy = "conservative"

NextRemoval ==
  \/ \E content \in RetryContents :
       nextKey <= MaxRemovalKey /\ Enqueue(content, 0)
  \/ \E c \in ChainIds :
       \/ RetryReadSettings(c)
       \/ RetryGiveUp(c)
       \/ RetryMarkRetrying(c)
       \/ RetryDeliver(c)
       \/ RetryWriteSuccess(c)
       \/ RetryWriteFailure(c)
       \/ TimerFires(c)
  \/ \E p \in PassIds :
       \/ PassReadsQueue(p)
       \/ PassRetriesNext(p)
  \/ AlarmCheckQueue
  \/ NetworkOnline
  \/ \E id \in DOMAIN idb : DequeueOf(id)

SpecRemoval == InitRemoval /\ [][NextRemoval]_vars

\* One lifetime of the worker in which the alarm or a network message may
\* come while a pass is running.
InitPasses ==
  /\ InitStores
  /\ settings \in [maxSize : {2}, autoRetry : {TRUE},
                    retryStrategy : {"conservative"},
                    successRetention : {threeMinutes}]
  /\ db = TRUE
  /\ useFallback = FALSE
  /\ chains = [c \in ChainIds |-> freeChain]
  /\ passes = [p \in OverlapIds |-> IF p = 1 THEN startupPass ELSE freePass]
  /\ listening = FALSE

NextPasses ==
  \/ \E content \in RetryContents : Enqueue(content, 0)
  \/ \E c \in ChainIds :
       \/ RetryReadSettings(c)
       \/ RetryGiveUp(c)
       \/ RetryMarkRetrying(c)
       \/ RetryDeliver(c)
       \/ RetryWriteSuccess(c)
       \/ RetryWriteFailure(c)
       \/ TimerFires(c)
  \/ \E p \in OverlapIds :
       \/ PassReadsQueue(p)
       \/ PassRetriesNext(p)
  \/ AlarmCheckQueue
  \/ NetworkOnline

SpecPasses == InitPasses /\ [][NextPasses]_vars

\* One lifetime of the worker: timers fire, suspended invocations and passes
\* resume, and the periodic alarm keeps coming; nothing obliges a new note
\* or a network message.
Fairness ==
  /\ \A c \in ChainIds :
       /\ WF_vars(RetryReadSettings(c))
       /\ WF_vars(RetryGiveUp(c))
       /\ WF_vars(RetryMarkRetrying(c))
       /\ WF_vars(RetryDeliver(c))
       /\ WF_vars(RetryWriteSuccess(c))
       /\ WF_vars(RetryWriteFailure(c))
       /\ WF_vars(TimerFires(c))
  /\ \A p \in PassIds :
       /\ WF_vars(PassReadsQueue(p))
       /\ WF_vars(PassRetriesNext(p))
  /\ WF_vars(AlarmCheckQueue)

FairSpec == Init /\ [][NextAlive]_vars /\ Fairness

(***************************************************************************)
(* Properties.                                                             *)
(***************************************************************************)
chainsOf(id) == {c \in ChainIds : chains[c].pc # "free" /\ chains[c].id = id}
passesInFlight == {p \in PassIds : passes[p].pc # "free"}
\* nothing is running or scheduled for the item
settled(id) == chainsOf(id) = {} /\ passesInFlight = {}
\* an invocation holds a failed delivery result it has not stored yet
failureUnstored(id) ==
  \E c \in chainsOf(id) : chains[c].pc = "updateResult" /\ ~chains[c].ok

\* C1: an item enqueued with retryCount 0 whose first two deliveries fail and
\* whose third succeeds, all in the one chain of invocations a single
\* retryQueueItem call starts, ends as success with retryCount 2 and an
\* empty lastError.
C1_TwoFailuresThenSuccess ==
  \A id \in DOMAIN idb :
    (/\ passInvs[id] = 1
     /\ attempts[id] = 3
     /\ failures[id] = 2
     /\ idb[id].status = "success"
     /\ settled(id))
    => idb[id].retryCount = 2 /\ idb[id].lastError = ""

\* C2: under the conservative strategy an item all of whose deliveries fail
\* gets exactly 3 deliveries and ends as failed with retryCount 3 and the
\* max-retries message.
C2_ConservativeStopsAfterThree ==
  \A id \in DOMAIN idb :
    (/\ settings.retryStrategy = "conservative"
     /\ passInvs[id] <= 1
     /\ failures[id] = attempts[id])
    => /\ attempts[id] <= 3
       /\ (attempts[id] = 3 /\ settled(id))
            => /\ idb[id].status = "failed"
               /\ idb[id].retryCount = 3
               /\ idb[id].lastError = MaxRetriesMsg

\* C3: an item's stored retryCount is the number of its failed deliveries
\* (once the invocation that saw the failure has stored it, and leaving
\* aside results a restart discarded).
C3_RetryCountCountsFailures ==
  \A id \in DOMAIN idb :
    (id \notin lost /\ ~failureUnstored(id) /\ failures[id] < MaxCount)
    => idb[id].retryCount = failures[id]

\* C4: the stored retryCount of an item that stays in the store never
\* decreases.
C4_RetryCountNeverDecreases ==
  [][\A id \in DOMAIN idb \cap DOMAIN idb' :
       idb'[id].retryCount >= idb[id].retryCount]_vars

\* C5: once an item's stored status is success or failed, no step of the
\* orchestrator changes its status, retryCount or lastError.
C5_TerminalNeverMutated ==
  [][\A id \in DOMAIN idb \cap DOMAIN idb' :
       idb[id].status \in Terminal
       => /\ idb'[id].status = idb[id].status
          /\ idb'[id].retryCount = idb[id].retryCount
          /\ idb'[id].lastError = idb[id].lastError]_vars

\* C6: no delivery call is made for an item whose stored status has been
\* success or failed.
C6_NoDeliveryAfterTerminal ==
  [][\A c \in ChainIds :
       (chains[c].pc = "retryQueuedNote" /\ chains'[c].pc = "updateResult")
       => chains[c].id \notin everTerminal]_vars

claimedMaximum(strategy) ==
  CASE strategy = "conservative" -> 3
    [] strategy = "standard" -> 6
    [] strategy = "aggressive" -> 10

\* C7: the deliveries made for one item, restarts included, never exceed
\* the maximum of the strategy in force.
C7_AttemptsBounded ==
  \A id \in DOMAIN idb : attempts[id] <= claimedMaximum(settings.retryStrategy)

\* C8: under fair scheduling every item in the store eventually has status
\* success or failed and keeps it.
C8_EventuallyTerminalForGood ==
  <>[](\A id \in DOMAIN idb : idb[id].status \in Terminal)

\* the records of the store in use
activeItems ==
  IF onFallback THEN {fallbackQ[n] : n \in 1..Len(fallbackQ)}
  ELSE {idb[k] : k \in DOMAIN idb}
activeSize == IF onFallback THEN Len(fallbackQ) ELSE Cardinality(DOMAIN idb)

\* C9: with calls that run one after the other, the primary store never
\* holds more than the configured maxSize items and the fallback store never
\* more than its cap, whatever maxSize is.
C9_QueueSizeBounded ==
  /\ Cardinality(DOMAIN idb) <= settings.maxSize
  /\ Len(fallbackQ) <= FallbackCap

\* the fallback store is at its cap, below maxSize, and has just turned an
\* enqueue away
C9_Witness ==
  /\ onFallback
  /\ Len(fallbackQ) = FallbackCap
  /\ FallbackCap < settings.maxSize
  /\ ret.op = "enqueue" /\ ~ret.success /\ ret.message = FallbackFullMsg

\* the store in use holds an item of this content created less than 5
\* minutes ago
heldRecently(content) ==
  \E it \in activeItems : it.content = content /\ now - it.createdAt < 300000
capacityPermits ==
  /\ activeSize < settings.maxSize
  /\ onFallback => Len(fallbackQ) < FallbackCap
storesUnchanged == idb' = idb /\ fallbackQ' = fallbackQ

\* C10 as claimed: enqueue of a content held for less than 5 minutes is
\* rejected with the duplicate message; of a content not held, or held for 5
\* minutes or more, it succeeds if capacity permits.
C10_DuplicateWindow_AsClaimed ==
  [][\A content \in Contents, random \in RandomValues :
       Enqueue(content, random)
       => IF heldRecently(content)
          THEN ~ret'.success /\ ret'.message = DuplicateMsg
          ELSE capacityPermits => ret'.success]_vars

\* C10 as amended: the rejection of a content held for less than 5 minutes
\* carries the duplicate message when the queue is below maxSize and the
\* queue-full message otherwise, and stores nothing; once 5 minutes have
\* passed the enqueue succeeds, capacity permitting, and stores the item.
C10_DuplicateWindow ==
  [][\A content \in Contents, random \in RandomValues :
       Enqueue(content, random)
       => IF heldRecently(content)
          THEN /\ ~ret'.success
               /\ storesUnchanged
               /\ ret'.message = IF activeSize < settings.maxSize
                                 THEN DuplicateMsg ELSE QueueFullMsg
          ELSE capacityPermits =>
                 /\ ret'.success
                 /\ \E it \in activeItems' :
                      /\ it.id = ret'.value
                      /\ it.content = content
                      /\ it.createdAt = now]_vars

\* an enqueue has just succeeded for a content the store already held, from
\* exactly 5 minutes before
C10_Witness ==
  /\ ret.op = "enqueue" /\ ret.success
  /\ \E new \in activeItems, old \in activeItems :
       /\ new.id = ret.value
       /\ new.createdAt = now
       /\ old.content = new.content
       /\ now - old.createdAt = 300000

\* the item is in no store after the step
gone(item) == ~\E other \in activeItems' : other.id = item.id
activeIds == {item.id : item \in activeItems}

\* C12: cleanup() with default options removes a success item only if its
\* updatedAt is more than 180000 ms before now; one updated 180000 ms ago
\* or less stays.
C12_CleanupKeepsRecentSuccess ==
  [][CleanupWith(noOptions)
     => \A item \in activeItems :
          (item.status = "success" /\ gone(item))
          => now - item.updatedAt > 180000]_vars

\* cleanup() has just run and kept a success item updated exactly 180000 ms
\* ago
C12_Witness ==
  /\ ret.op = "cleanup" /\ ret.options = noOptions
  /\ \E item \in activeItems :
       item.status = "success" /\ now - item.updatedAt = 180000

\* C13: cleanup removes a success item exactly when its updatedAt is more
\* than the configured successRetention before now.
C13_CleanupUsesSuccessRetention ==
  [][CleanupWith(noOptions)
     => \A item \in activeItems :
          item.status = "success"
          => (gone(item) <=> now - item.updatedAt > settings.successRetention)]_vars

\* the new record is the old one with the fields of the patch replaced and
\* updatedAt set to the current time
patched(old, new, updates) ==
  /\ DOMAIN new = DOMAIN old
  /\ \A f \in DOMAIN old :
       new[f] = IF f = "updatedAt" THEN now
                ELSE IF f \in DOMAIN updates THEN updates[f]
                ELSE old[f]

\* C14: when the open of the primary store failed, enqueue, getQueue and
\* updateItem work on the fallback store and leave the primary store alone:
\* an enqueue is accepted while the list is below its cap (and maxSize, and
\* holds no recent duplicate) and the item is in getQueue under the id
\* returned; an item is updated by its id; an enqueue is rejected once the
\* list holds cap items.
C14_FallbackServesCalls ==
  [][(useFallback /\ ~db)
     => /\ idb' = idb
        /\ \A content \in Contents, random \in RandomValues :
             Enqueue(content, random)
             => /\ Len(fallbackQ) >= FallbackCap
                     => ~ret'.success /\ fallbackQ' = fallbackQ
                /\ (capacityPermits /\ ~heldRecently(content)) => ret'.success
                /\ ret'.success
                     => \E n \in 1..Len(getQueue("all")') :
                          /\ getQueue("all")'[n].id = ret'.value
                          /\ getQueue("all")'[n].content = content
                          /\ getQueue("all")'[n].status = "pending"
        /\ \A id \in activeIds, updates \in Patches :
             UpdateItemOf(id, updates)
             => /\ ret'.success
                /\ \E n \in 1..Len(fallbackQ) :
                     /\ fallbackQ[n].id = id
                     /\ patched(fallbackQ[n], fallbackQ'[n], updates)]_vars

\* the open failed, the fallback list is at its cap, and the item enqueued
\* there has been updated by its id
C14_Witness ==
  /\ useFallback /\ ~db
  /\ idb = <<>>
  /\ Len(fallbackQ) = FallbackCap
  /\ ret.op = "updateItem" /\ ret.success
  /\ \E n \in 1..Len(fallbackQ) :
       fallbackQ[n].status = "success" /\ fallbackQ[n].updatedAt = now

\* C16 as claimed: enqueue of an empty content returns a failure and leaves
\* the store unchanged.
C16_EnqueueRejectsEmpty_AsClaimed ==
  [][\A random \in RandomValues :
       Enqueue("", random) => ~ret'.success /\ storesUnchanged]_vars

\* C16 as amended: the empty content is turned away by createNote, before
\* enqueue is called: createNote returns a failure, queues nothing and leaves
\* the store unchanged, whatever the configuration and the server's answer.
C16_CreateNoteRejectsEmpty ==
  [][\A configured \in BOOLEAN, response \in Responses :
       CreateNote(configured, "", response, 0)
       => ~ret'.success /\ ~ret'.queued /\ storesUnchanged]_vars

\* createNote has just turned an empty content away
C16_Witness ==
  /\ ret.op = "createNote"
  /\ ret.message = "status_error_emptyContent"
  /\ ~ret.success /\ ~ret.queued

\* C17 as claimed: after dequeue(id) no item has that id, a dequeue of an
\* id that is not in the store changes nothing, and dequeue returns true
\* only when an item with that id was in the store.
C17_DequeueIdempotent_AsClaimed ==
  [][\A id \in heldIds :
       DequeueOf(id)
       => /\ id \notin activeIds'
          /\ id \notin activeIds => storesUnchanged
          /\ ret'.success => id \in activeIds]_vars

\* C17 as amended: after dequeue(id) no item has that id and the other items
\* are as before, a dequeue of an id that is not in the store changes
\* nothing, and dequeue returns true whether or not an item with that id was
\* in the store.
C17_DequeueIdempotent ==
  [][\A id \in heldIds :
       DequeueOf(id)
       => /\ id \notin activeIds'
          /\ activeItems' = {item \in activeItems : item.id # id}
          /\ id \notin activeIds => storesUnchanged
          /\ ret'.success]_vars

\* dequeue has just returned true on a primary store that never held an item
C17_Witness ==
  /\ ret.op = "dequeue" /\ ret.success
  /\ ~onFallback
  /\ idb = <<>> /\ nextKey = 1

\* C18: updateItem(id, patch) on an id of the store returns true, replaces
\* the fields of the patch in that record, sets its updatedAt to the
\* current time and leaves its other fields and the other records as they
\* were; on an id that is not in the store it returns false and changes
\* nothing.
C18_UpdateItemMerges ==
  [][\A id \in heldIds, updates \in Patches :
       UpdateItemOf(id, updates)
       => IF id \notin activeIds
          THEN ~ret'.success /\ storesUnchanged
          ELSE /\ ret'.success
               /\ IF onFallback
                  THEN /\ idb' = idb
                       /\ Len(fallbackQ') = Len(fallbackQ)
                       /\ \E n \in 1..Len(fallbackQ) :
                            /\ fallbackQ[n].id = id
                            /\ patched(fallbackQ[n], fallbackQ'[n], updates)
                            /\ \A m \in 1..Len(fallbackQ) \ {n} :
                                 fallbackQ'[m] = fallbackQ[m]
                  ELSE /\ fallbackQ' = fallbackQ
                       /\ DOMAIN idb' = DOMAIN idb
                       /\ patched(idb[id], idb'[id], updates)
                       /\ \A k \in DOMAIN idb \ {id} : idb'[k] = idb[k]]_vars

\* updateItem has just stored a failed delivery in a record created earlier
C18_Witness ==
  /\ ret.op = "updateItem" /\ ret.success
  /\ \E item \in activeItems :
       /\ item.createdAt < now /\ item.updatedAt = now
       /\ item.status = "pending" /\ item.retryCount = 1
       /\ item.lastError = DeliveryErrorMsg

\* the records a store holds, as a sequence
recordsOf(via) == IF via = "idb" THEN getAll ELSE fallbackQ
waiting(item) == item.status \in {"pending", "retrying"}

\* C11: no store holds two items of the same content, both pending or
\* retrying, created less than 5 minutes apart, also when enqueue calls
\* overlap.
C11_NoRecentDuplicates ==
  \A via \in {"idb", "fallback"} :
    LET records == recordsOf(via)
    IN \A n, m \in 1..Len(records) :
         (/\ n # m
          /\ records[n].content = records[m].content
          /\ waiting(records[n]) /\ waiting(records[m]))
         => \/ records[n].createdAt - records[m].createdAt >= 300000
            \/ records[m].createdAt - records[n].createdAt >= 300000

completed(t, ops) ==
  /\ tasks[t].pc = "done"
  /\ tasks[t].op \in ops
  /\ tasks[t].success

carries(item, updates) == \A f \in DOMAIN updates : item[f] = updates[f]

\* C19: when two updateItem calls on one id, with patches of different
\* fields, have both returned true, the record holds both patches, on either
\* store.
C19_NoLostUpdate ==
  \A t, u \in TaskIds :
    (/\ t # u
     /\ completed(t, {"updateItem"}) /\ completed(u, {"updateItem"})
     /\ tasks[t].id = tasks[u].id
     /\ tasks[t].via = tasks[u].via
     /\ DOMAIN tasks[t].updates \cap DOMAIN tasks[u].updates = {})
    => LET records == recordsOf(tasks[t].via)
       IN \E n \in 1..Len(records) :
            /\ records[n].id = tasks[t].id
            /\ carries(records[n], tasks[t].updates)
            /\ carries(records[n], tasks[u].updates)

\* the item a completed call was about, and whether the store shows what
\* the call did
itemOf(task) == IF task.op = "enqueue" THEN task.value ELSE task.id
effective(task) ==
  LET records == recordsOf(task.via)
      mine == {n \in 1..Len(records) : records[n].id = itemOf(task)}
  IN CASE task.op = "enqueue" ->
            \E n \in mine : records[n].content = task.content
       [] task.op = "updateItem" ->
            \E n \in mine : carries(records[n], task.updates)
       [] task.op = "dequeue" -> mine = {}

\* C20: when an enqueue, updateItem or dequeue on one item and one on
\* another item (another id, and another content if both are enqueued) have
\* both returned true, the store shows both: it is what the two calls give
\* one after the other, on either store.
C20_DistinctItemsIndependent ==
  \A t, u \in TaskIds :
    (/\ t # u
     /\ completed(t, {"enqueue", "updateItem", "dequeue"})
     /\ completed(u, {"enqueue", "updateItem", "dequeue"})
     /\ tasks[t].via = tasks[u].via
     /\ itemOf(tasks[t]) # itemOf(tasks[u])
     /\ (tasks[t].op = "enqueue" /\ tasks[u].op = "enqueue")
          => tasks[t].content # tasks[u].content)
    => effective(tasks[t]) /\ effective(tasks[u])

\* what the three strategies are said to allow and to wait
claimedDelays(strategy) ==
  CASE strategy = "conservative" -> <<1000, 2000, 4000>>
    [] strategy = "standard" -> <<1000, 2000, 4000, 8000, 16000, 32000>>
    [] strategy = "aggressive" ->
         <<1000, 1000, 2000, 2000, 4000, 8000, 16000, 32000, 60000, 120000>>

claimedLastDelay(strategy) ==
  CASE strategy = "conservative" -> 4000
    [] strategy = "standard" -> 32000
    [] strategy = "aggressive" -> 120000

\* C21: shouldRetry(n, strategy) is true exactly when n is below 3 under
\* 'conservative', below 6 under 'standard' and below 10 under 'aggressive'.
C21_ShouldRetryBelowMaximum ==
  (ret.op = "shouldRetry" /\ ret.args[2] \in Strategies)
    => (ret.success <=> ret.args[1] < claimedMaximum(ret.args[2]))

\* shouldRetry has answered at the maximum of 'aggressive'
C21_Witness ==
  /\ ret.op = "shouldRetry"
  /\ ret.args = <<10, "aggressive">>
  /\ ~ret.success

\* C22: calculateRetryDelay(attempt, strategy) is entry min(attempt, len - 1)
\* (0-based) of the strategy's delay list; past the list it is the last
\* entry (4000, 32000, 120000), never undefined.
C22_DelaySaturates ==
  (ret.op = "calculateRetryDelay" /\ ret.args[2] \in Strategies)
    => LET attempt == ret.args[1]
           list == claimedDelays(ret.args[2])
       IN /\ ret.value = list[Min(attempt, Len(list) - 1) + 1]
          /\ attempt >= Len(list) - 1 => ret.value = claimedLastDelay(ret.args[2])

\* calculateRetryDelay has answered past the end of the 'conservative' list
C22_Witness ==
  /\ ret.op = "calculateRetryDelay"
  /\ ret.args = <<MaxAttempt, "conservative">>
  /\ ret.value = 4000

\* C23: a createNote that fails for a reason a retry cannot cure (no API
\* configuration, empty content, 401 or 403, another status below 500)
\* leaves the queue unchanged and returns a failure without queued=true.
C23_NonRetryableNeverQueued ==
  [][\A configured \in BOOLEAN, content \in NoteContents, response \in Responses :
       (/\ CreateNote(configured, content, response, 0)
        /\ \/ ~configured
           \/ content = ""
           \/ response \in {"unauthorized", "otherStatus"})
       => /\ storesUnchanged
          /\ nextKey' = nextKey
          /\ ~ret'.success
          /\ ~ret'.queued]_vars

\* createNote has returned the authentication failure under autoRetry, with a
\* queue that had room for the note
C23_Witness ==
  /\ ret.op = "createNote"
  /\ ret.message = "api_error_authFailedCheck"
  /\ ~ret.queued
  /\ settings.autoRetry
  /\ activeSize < settings.maxSize

\* C24: with autoRetry off, no createNote adds an item to the queue, whatever
\* its failure (5xx and network errors included).
C24_AutoRetryOffNeverQueues ==
  [][\A configured \in BOOLEAN, content \in NoteContents, response \in Responses :
       (~settings.autoRetry /\ CreateNote(configured, content, response, 0))
       => /\ storesUnchanged
          /\ nextKey' = nextKey
          /\ ~ret'.queued]_vars

\* with autoRetry off, createNote has returned a network error unqueued
C24_Witness ==
  /\ ~settings.autoRetry
  /\ ret.op = "createNote"
  /\ ret.message = "error_networkError"
  /\ ~ret.queued
  /\ activeSize < settings.maxSize

\* the ids of the records of the fallback list, one entry per record
fallbackIds == [n \in 1..Len(fallbackQ) |-> fallbackQ[n].id]

\* C25: no two items of the active store share an id, and an enqueue never
\* gives out an id that an earlier enqueue on the same store gave out (the
\* item of that id deleted or not), on IndexedDB and on the fallback list.
C25_IdsUniqueForLife ==
  /\ [](\A m, n \in DOMAIN fallbackIds : fallbackIds[m] = fallbackIds[n] => m = n)
  /\ [][\A content \in Contents, random \in RandomValues :
         (Enqueue(content, random) /\ ret'.success)
         => <<activeStore, ret'.value>> \notin assigned]_vars

\* the fields of an item a retry may write
RetryFields == {"status", "retryCount", "lastError", "updatedAt"}

sameButRetryFields(old, new) ==
  \A f \in DOMAIN old \ RetryFields : new[f] = old[f]

\* only the item of this id differs, and only in the fields a retry may write
onlyRetryFieldsOf(id) ==
  /\ DOMAIN idb' = DOMAIN idb
  /\ \A k \in DOMAIN idb :
       IF k = id THEN sameButRetryFields(idb[k], idb'[k]) ELSE idb'[k] = idb[k]
  /\ Len(fallbackQ') = Len(fallbackQ)
  /\ \A n \in 1..Len(fallbackQ) :
       IF fallbackQ[n].id = id THEN sameButRetryFields(fallbackQ[n], fallbackQ'[n])
       ELSE fallbackQ'[n] = fallbackQ[n]

\* C26: a write of retryQueueItem (an updateItem with one of its patches)
\* changes only status, retryCount, lastError and updatedAt of the item it
\* was given; the other fields of that item, the other items and the number
\* of items stay as they were.
C26_RetryChangesOnlyItsItem ==
  [][\A t \in TaskIds :
       (tasks[t].op = "updateItem" /\ (WritePrimary(t) \/ WriteFallback(t)))
       => onlyRetryFieldsOf(tasks[t].id)]_vars

\* the invocation has passed its shouldRetry test, or left a timer behind
pastTheTest(c) ==
  chains[c].pc \in {"updateRetrying", "retryQueuedNote", "updateResult", "timer"}

\* C27: an invocation of retryQueueItem given an item whose retryCount is at
\* or above the maximum of the strategy goes to the 'failed' write and no
\* further: it never reaches the delivery or a timer, and its write sets
\* status 'failed' and the max-retries message, makes no delivery call and
\* leaves no timer.
C27_ExhaustedItemFails ==
  /\ [](\A c \in ChainIds :
          pastTheTest(c) => chains[c].retryCount < claimedMaximum(chains[c].strategy))
  /\ [][\A c \in ChainIds :
         /\ (/\ RetryReadSettings(c)
             /\ chains[c].retryCount >= claimedMaximum(settings.retryStrategy))
            => chains'[c].pc = "updateFailed"
         /\ RetryGiveUp(c)
            => /\ chains[c].retryCount >= claimedMaximum(settings.retryStrategy)
               /\ idb'[chains[c].id].status = "failed"
               /\ idb'[chains[c].id].lastError = MaxRetriesMsg
               /\ chains'[c] = freeChain
               /\ attempts' = attempts]_vars

\* an item given up at the maximum of 'conservative': it is failed with the
\* max-retries message and nothing is running or scheduled for it
C27_Witness ==
  \E id \in DOMAIN idb :
    /\ settings.retryStrategy = "conservative"
    /\ idb[id].status = "failed"
    /\ idb[id].lastError = MaxRetriesMsg
    /\ idb[id].retryCount = 3
    /\ chainsOf(id) = {}

\* C28: while the deliveries of an item fail one after the other in the one
\* chain of invocations a single retryQueueItem call starts, the k-th
\* failure stores retryCount k and leaves one timer, set to entry
\* min(k, len - 1) of the strategy's delay list; an invocation that ends in
\* success or gives up leaves no timer.
C28_DelaysFollowTheList ==
  /\ [](\A c \in ChainIds :
          LET id == chains[c].id
              list == claimedDelays(chains[c].strategy)
          IN (/\ chains[c].pc = "timer"
              /\ passInvs[id] <= 1
              /\ failures[id] = attempts[id]
              /\ failures[id] < MaxCount)
             => /\ idb[id].retryCount = failures[id]
                /\ chains[c].delay = list[Min(failures[id], Len(list) - 1) + 1]
                /\ chainsOf(id) = {c})
  /\ [][\A c \in ChainIds :
         (RetryWriteSuccess(c) \/ RetryGiveUp(c)) => chains'[c].pc = "free"]_vars

\* the stored items a recovery pass is to take up
recoverable == {id \in DOMAIN idb : idb[id].status \in {"pending", "retrying"}}

\* the invocations a step starts
started == {c \in ChainIds : chains[c].pc = "free" /\ chains'[c].pc # "free"}

C30_PassInvokesItsSnapshot ==
  [][\A p \in PassIds :
       LET todo == passes[p].todo
       IN /\ PassReadsQueue(p)
             => /\ {passes'[p].todo[n].id : n \in DOMAIN passes'[p].todo} = recoverable
                /\ Len(passes'[p].todo) = Cardinality(recoverable)
          /\ PassRetriesNext(p)
             => /\ Cardinality(started) = 1
                /\ \A c \in started :
                     chains'[c].pass = p /\ chains'[c].id = Head(todo).id
                /\ passes'[p].todo = Tail(todo)
          /\ (passes[p].pc # "getQueue" /\ passes'[p].pc \notin {"getQueue", "free"}
              /\ passes'[p].todo # todo)
             => \E c \in started : chains'[c].pass = p /\ chains'[c].id = Head(todo).id
          /\ \A c \in started : chains'[c].pass = p => passes[p].pc = "next"]_vars

\* a pass started by the alarm or the network message has read the queue,
\* found the item an earlier pass had taken up still 'pending' or 'retrying',
\* and invoked retryQueueItem for it; nothing is left for it to invoke
C30_Witness ==
  \E p \in PassIds, c \in ChainIds :
    /\ ~passes[p].startup
    /\ passes[p].pc = "await" /\ passes[p].todo = <<>>
    /\ chains[c].pass = p /\ chains[c].pc = "getQueueSettings"
    /\ idb[chains[c].id].status \in {"pending", "retrying"}
    /\ passInvs[chains[c].id] = 2

\* the passes that have read the queue and are working through it
iterating == {p \in DOMAIN passes : passes[p].pc \in {"next", "await"}}

\* C31: at most one recovery pass works through the queue at a time: a pass
\* the alarm or a network message starts while another is running invokes
\* retryQueueItem for no item.
C31_OnePassAtATime ==
  /\ [](Cardinality(iterating) <= 1)
  /\ [][\A p \in DOMAIN passes :
         (PassRetriesNext(p) \/ (PassReadsQueue(p) /\ passes'[p].pc = "next"))
         => iterating \subseteq {p}]_vars

\* C32: the invocations of retryQueueItem for one item follow one another:
\* none starts for an id while an invocation for that id is running or the
\* timer an invocation left for it is outstanding.
C32_OneChainPerItem ==
  /\ [](\A id \in DOMAIN idb : Cardinality(chainsOf(id)) <= 1)
  /\ [][\A c \in started : chainsOf(chains'[c].id) = {}]_vars

\* C33: every invocation of retryQueueItem reads the stored settings: it
\* decides between going on and giving up with the retryStrategy stored at
\* that moment, a timer set before a change included, and computes the delay
\* of the timer it sets with the strategy it read.
C33_SettingsReadPerInvocation ==
  [][\A c \in ChainIds :
       /\ RetryReadSettings(c)
          => /\ chains'[c].strategy = settings.retryStrategy
             /\ chains'[c].pc = "updateFailed"
                  <=> chains[c].retryCount >= claimedMaximum(settings.retryStrategy)
       /\ RetryWriteFailure(c)
          => LET list == claimedDelays(chains[c].strategy)
             IN chains'[c].delay
                  = list[Min(chains[c].retryCount + 1, Len(list) - 1) + 1]]_vars

\* a timer set under 'conservative' (4000 ms after the failure of an item
\* object with retryCount 2) has fired after the strategy was changed to
\* 'standard', and the invocation, having read 'standard', goes on where
\* 'conservative' would have stopped at the next count
C33_Witness ==
  \E c \in ChainIds :
    /\ chains[c].pc = "updateRetrying"
    /\ chains[c].pass = 0
    /\ chains[c].retryCount = 2
    /\ chains[c].delay = 4000
    /\ chains[c].strategy = "standard"
    /\ settings.retryStrategy = "standard"

\* the items a step has added to the primary store
added == {idb'[id] : id \in DOMAIN idb' \ DOMAIN idb}

\* C34: an enqueue at capacity or of a recent duplicate returns success=false
\* with its reason and leaves the store as it was; an enqueue returns
\* success=true only with its item stored; no step other than a call of
\* enqueue or createNote ever adds an item (a rejected enqueue is not retried
\* by the queue); and createNote returns queued=true exactly when its
\* enqueue stored the note.
C34_RejectedEnqueueStoresNothing ==
  /\ [][\A content \in NoteContents :
          Enqueue(content, 0)
          => /\ (activeSize >= settings.maxSize \/ heldRecently(content))
                  => ~ret'.success
             /\ ~ret'.success
                  => /\ ret'.message \in {QueueFullMsg, DuplicateMsg}
                     /\ storesUnchanged
                     /\ nextKey' = nextKey
             /\ ret'.success
                  => \E it \in added :
                       added = {it} /\ it.id = ret'.value /\ it.content = content]_vars
  /\ [][\A configured \in BOOLEAN, content \in NoteContents, response \in Responses :
          CreateNote(configured, content, response, 0)
          => /\ ret'.queued
                  <=> \E it \in added : added = {it} /\ it.content = content
             /\ ~ret'.queued => storesUnchanged /\ nextKey' = nextKey]_vars
  /\ [][added # {}
          => \/ ret'.op = "enqueue" /\ ret'.success
             \/ ret'.op = "createNote" /\ ret'.queued]_vars

\* an enqueue has just been rejected as a duplicate by a queue with room, and
\* the queue holds the one earlier item only
C34_Witness ==
  /\ ret.op = "enqueue"
  /\ ~ret.success
  /\ ret.message = DuplicateMsg
  /\ activeSize = 1
  /\ activeSize < settings.maxSize

\* C35: when an updateItem call of retryQueueItem returns false (the item is
\* missing or the write failed), the invocation does not go on as though the
\* transition were stored: after a failed 'retrying' write it makes no
\* delivery call, and after a failed 'pending' write it sets no timer.
C35_FailedWriteStopsInvocation ==
  [][\A c \in ChainIds :
       /\ (/\ RetryMarkRetrying(c)
           /\ ~updateItem(chains[c].id, [status |-> "retrying"]).success)
          => chains'[c].pc # "retryQueuedNote"
       /\ (/\ RetryWriteFailure(c)
           /\ ~updateItem(chains[c].id,
                          [status |-> "pending", retryCount |-> newRetryCount(c),
                           lastError |-> DeliveryErrorMsg]).success)
          => chains'[c].pc # "timer"]_vars

\* C37: no delivery call is made for an item that is no longer in the store:
\* once an item was removed, a timer outstanding for it or an invocation in
\* flight for it leads to no further call of retryQueuedNote.
C37_NoDeliveryAfterRemoval ==
  [][\A c \in ChainIds : RetryDeliver(c) => chains[c].id \in DOMAIN idb]_vars

\* C36: cleanup removes an item that is 'pending', 'retrying' or 'failed'
\* only under a status filter naming its status or an olderThan age it
\* exceeds; called with no options, as the periodic driver calls it, it
\* removes no such item, however old.
C36_CleanupSparesUnfinished ==
  [][\A options \in CleanupCalls :
       CleanupWith(options)
       => \A id \in DOMAIN idb \ DOMAIN idb' :
            \/ idb[id].status = "success"
            \/ options.status # "" /\ options.status = idb[id].status
            \/ options.olderThan # 0 /\ now - idb[id].createdAt > options.olderThan]_vars

\* cleanup with no options has just removed nothing from a store that holds
\* a failed item last written more than three minutes ago
C36_Witness ==
  /\ ret.op = "cleanup"
  /\ ret.options = noOptions
  /\ ret.value = 0
  /\ \E id \in DOMAIN idb :
       /\ idb[id].status = "failed"
       /\ now - idb[id].updatedAt > threeMinutes

\* C38: whenever the stored status of an item becomes 'failed', the item's
\* stored retryCount is at least the maximum of the strategy in force: no
\* item is marked 'failed' with retries left.
C38_FailedOnlyWhenExhausted ==
  [][\A id \in DOMAIN idb \cap DOMAIN idb' :
       (idb[id].status # "failed" /\ idb'[id].status = "failed")
       => idb'[id].retryCount >= claimedMaximum(settings.retryStrategy)]_vars

\* the ids of the records a store holds, now and after the step
idsIn(via) == {recordsOf(via)[n].id : n \in 1..Len(recordsOf(via))}
idsInNext(via) ==
  IF via = "idb" THEN DOMAIN idb'
  ELSE {fallbackQ'[n].id : n \in 1..Len(fallbackQ')}

\* the step is the store write of a dequeue of id or of a clearQueue
removes(t, id) ==
  /\ tasks[t].pc \in {"primary", "fallback", "fallbackSet"}
  /\ tasks'[t].pc = "done"
  /\ \/ tasks[t].op = "dequeue" /\ tasks[t].id = id
     \/ tasks[t].op = "clearQueue"

\* C39: the item of an enqueue that returned success=true is in the store
\* when the call returns, and stays there until a dequeue of its id or a
\* clearQueue removes it, on either store, however enqueue, updateItem and
\* dequeue calls interleave.
C39_AcceptedItemStays ==
  /\ [][\A t \in TaskIds :
          (/\ tasks[t].pc # "done"
           /\ tasks'[t].pc = "done"
           /\ tasks'[t].op = "enqueue"
           /\ tasks'[t].success)
          => tasks'[t].value \in idsInNext(tasks'[t].via)]_vars
  /\ [][\A via \in {"idb", "fallback"} :
          \A id \in idsIn(via) \ idsInNext(via) :
            <<via, id>> \in assigned => \E t \in TaskIds : removes(t, id)]_vars

\* C40: however enqueue calls overlap, the primary store never holds more
\* than maxSize items and the fallback store never more than its cap.
C40_CapacityUnderOverlap ==
  \A via \in {"idb", "fallback"} :
    Len(recordsOf(via)) <= IF via = "idb" THEN getMaxQueueSize ELSE FallbackCap

====
